---- MODULE Spec2Model ----
(***************************************************************************)
(* Holdings extraction, reconciliation and cross-broker aggregation of the *)
(* portfolio aggregator (backend/crawlers/*.py, fetch_all_positions.py,    *)
(* models/portfolio.py), its numeric text normalizers and its snapshot     *)
(* store (storage/database.py).                                            *)
(*                                                                         *)
(* Money amounts and share counts are integers (whole dollars / shares).   *)
(* Every quotient the code computes with "/" is kept as an exact fraction  *)
(* in lowest terms (Rat), so two quotients are equal records exactly when  *)
(* they are equal numbers.                                                 *)
(***************************************************************************)
EXTENDS Integers, Sequences, FiniteSets, TLC

(***************************************************************************)
(* Bounds                                                                  *)
(***************************************************************************)
\* rows on one broker page (all tables of the page together)
MaxRows == 2
\* holdings tables on one Merrill page
MaxTables == 2
\* characters of a cell text handed to a numeric text normalizer
MaxChars == 3
\* holdings of a portfolio handed to the snapshot store
MaxHoldings == 2

(***************************************************************************)
(* Exact arithmetic                                                        *)
(***************************************************************************)
Abs(x) == IF x < 0 THEN -x ELSE x

Max(a, b) == IF a >= b THEN a ELSE b

RECURSIVE Gcd(_, _)
Gcd(a, b) == IF b = 0 THEN a ELSE Gcd(b, a % b)

\* the fraction n/d (d # 0) in lowest terms with a positive denominator
Rat(n, d) ==
    LET g == Gcd(Abs(n), Abs(d))
        s == IF d < 0 THEN -1 ELSE 1
    IN  [num |-> (s * n) \div g, den |-> (s * d) \div g]

Zero == [num |-> 0, den |-> 1]

One == [num |-> 1, den |-> 1]

RatAdd(p, q) == Rat(p.num * q.den + q.num * p.den, p.den * q.den)

RatAbs(p) == [num |-> Abs(p.num), den |-> p.den]

\* Optional[float]: None is the empty sequence, a value is a one-element one
None == <<>>

Some(x) == <<x>>

RECURSIVE SumSeq(_)
SumSeq(s) == IF s = <<>> THEN 0 ELSE Head(s) + SumSeq(Tail(s))

\* sum(h.<field> for h in holdings)
SumField(holdings, f) == SumSeq([i \in 1..Len(holdings) |-> holdings[i][f]])

\* n / d > TOTAL_CHECK_TOLERANCE for d # 0, with the sign of d respected
TOTAL_CHECK_TOLERANCE == Rat(1, 100)

QuotientExceedsTolerance(n, d) ==
    IF d > 0
    THEN n * TOTAL_CHECK_TOLERANCE.den > d * TOTAL_CHECK_TOLERANCE.num
    ELSE n * TOTAL_CHECK_TOLERANCE.den < d * TOTAL_CHECK_TOLERANCE.num

(***************************************************************************)
(* Brokers, in the order of BROKER_CRAWLERS                                *)
(***************************************************************************)
BROKER_CRAWLERS == <<"merrill_edge", "chase", "etrade">>

Brokers == {BROKER_CRAWLERS[i] : i \in 1..Len(BROKER_CRAWLERS)}

(***************************************************************************)
(* Page content read by the crawlers.  A row is the list of cell values of *)
(* one table row; kind is the row's markup: "position" for the markup of a *)
(* position row, "cash" for the markup of the cash row, "both" for a row   *)
(* that carries both; blank is the set of its cells that hold no text (the *)
(* value the record keeps for such a cell is never read); a symbol cell    *)
(* without text is the symbol "".                                          *)
(***************************************************************************)
MkRow(kind, symbol, description, quantity, price, unit_cost, cost_basis, value, day_dollars, day_percent, gain, gain_percent, pct) ==
    [kind |-> kind, symbol |-> symbol, description |-> description,
     quantity |-> quantity, price |-> price, unit_cost |-> unit_cost,
     cost_basis |-> cost_basis, value |-> value,
     day_dollars |-> day_dollars, day_percent |-> day_percent,
     gain |-> gain, gain_percent |-> gain_percent, pct |-> pct,
     blank |-> {}]

\* the row with the given cells left blank
Blank(row, cells) == [row EXCEPT !.blank = cells]

\* the row is selected as a position row / carries the cash marker
HasPositionMarkup(row) == row.kind \in {"position", "both"}

HasCashMarker(row) == row.kind \in {"cash", "both"}

\* a long lot held at a gain, an offsetting short lot of the same symbol held
\* at a loss, and the cash row
RowPool ==
    { MkRow("position", "AAPL", "APPLE INC", 10, 20, 18, 180, 200,
            2, Rat(1, 100), 20, Rat(1, 9), Some(Rat(1, 2))),
      MkRow("position", "AAPL", "APPLE INC", -10, 20, 18, -180, -200,
            -2, Rat(-1, 100), -20, Rat(1, 9), None),
      MkRow("cash", "Cash", "Cash & sweep funds", 200, 1, 1, 200, 200,
            0, Zero, 0, Zero, None) }

\* rows as they also occur on a page: a second lot of the symbol at another
\* price on a day without trading (blank day-change cell), a lot whose whole
\* value is today's change, lots with a blank symbol, quantity or cost cells,
\* a sweep position shown on the cash row, and a cash row with no balance
RowShapes ==
    RowPool \cup
    { Blank(MkRow("position", "AAPL", "APPLE INC", 5, 22, 18, 90, 110,
                  0, Zero, 20, Rat(2, 9), Some(Rat(1, 4))), {"day_dollars"}),
      MkRow("position", "AAPL", "APPLE INC", 10, 20, 18, 180, 200,
            200, Zero, 20, Rat(1, 9), Some(Rat(1, 2))),
      MkRow("position", "", "APPLE INC", 10, 20, 18, 180, 200,
            2, Rat(1, 100), 20, Rat(1, 9), Some(Rat(1, 2))),
      Blank(MkRow("position", "AAPL", "APPLE INC", 0, 20, 18, 180, 200,
                  2, Rat(1, 100), 20, Rat(1, 9), Some(Rat(1, 2))), {"quantity"}),
      Blank(MkRow("position", "AAPL", "APPLE INC", 10, 20, 0, 0, 200,
                  2, Rat(1, 100), 0, Zero, Some(Rat(1, 2))),
            {"unit_cost", "cost_basis"}),
      MkRow("both", "SWEEP", "Cash & sweep funds", 100, 1, 1, 100, 100,
            0, Zero, 0, Zero, None),
      MkRow("cash", "Cash", "Cash & sweep funds", 0, 1, 1, 0, 0,
            0, Zero, 0, Zero, None) }

RECURSIVE SeqsUpTo(_, _)
SeqsUpTo(S, n) ==
    IF n = 0 THEN {<<>>}
    ELSE LET shorter == SeqsUpTo(S, n - 1)
         IN  shorter \cup {Append(s, x) : s \in {t \in shorter : Len(t) = n - 1}, x \in S}

\* the cells of the page's totals row: the value cell holds a number, the
\* unrealized cell a number or nothing (blank, "--")
ReportedValues == {-200, 0, 198, 200, 400}

ReportedGains == {None, Some(-20), Some(0), Some(20)}

TotalsRows == [value : ReportedValues, gain : ReportedGains]

\* the totals row of a table, or None when the table has none
Totals == {None} \cup {Some(t) : t \in TotalsRows}

(***************************************************************************)
(* models/portfolio.py                                                     *)
(***************************************************************************)
Holding(symbol, description, quantity, price, unit_cost, cost_basis, current_value, day_change_percent, day_change_dollars, unrealized_gain_loss, unrealized_gain_loss_percent, portfolio_percentage, brokers) ==
    [symbol |-> symbol, description |-> description, quantity |-> quantity,
     price |-> price, unit_cost |-> unit_cost, cost_basis |-> cost_basis,
     current_value |-> current_value,
     day_change_percent |-> day_change_percent,
     day_change_dollars |-> day_change_dollars,
     unrealized_gain_loss |-> unrealized_gain_loss,
     unrealized_gain_loss_percent |-> unrealized_gain_loss_percent,
     portfolio_percentage |-> portfolio_percentage, brokers |-> brokers]

\* brokers={self.broker_name: value}
BrokerMap(broker, value) == [b \in {broker} |-> value]

\* variant: a cash Holding of one unit instead of one unit per dollar
CashHolding_unit_quantity(broker, description, cash_amount) ==
    Holding("USD_CASH", description, 1, One, One, cash_amount,
            cash_amount, Zero, 0, 0, Zero, None,
            BrokerMap(broker, cash_amount))

\* the cash Holding every cash-row detector builds from the scraped amount
CashHolding(broker, description, cash_amount) ==
    Holding("USD_CASH", description, cash_amount, One, One, cash_amount,
            cash_amount, Zero, 0, 0, Zero, None,
            BrokerMap(broker, cash_amount))

\* CrawlerResult(broker, success, holdings=[], error_message=None)
CrawlerResult(broker, success, holdings, error_message) ==
    [broker |-> broker, success |-> success, holdings |-> holdings,
     error_message |-> error_message]

(***************************************************************************)
(* Row parsers.  Each returns None (row dropped) or Some(holding).         *)
(***************************************************************************)
\* _clean_decimal_text raises ValueError on a cell without text; only the
\* day-change cell has its own except branch (0.0).  The symbol is the text
\* of the symbol link, whatever it is.
Chase_parse_position_row(row) ==
    LET day_change_dollars ==
            IF "day_dollars" \in row.blank THEN 0 ELSE row.day_dollars
    IN  IF {"price", "value", "quantity", "cost_basis"} \cap row.blank # {}
        THEN None
        ELSE IF row.value = 0 \/ row.quantity = 0 THEN None
        ELSE Some(Holding(row.symbol, row.description, row.quantity,
                          Rat(row.price, 1),
                          RatAbs(Rat(row.cost_basis, row.quantity)),
                          row.cost_basis, row.value,
                          Rat(day_change_dollars, row.value),
                          day_change_dollars,
                          row.gain, row.gain_percent, None,
                          BrokerMap("chase", row.value)))

Chase_parse_cash_row(row) ==
    IF "value" \in row.blank THEN None
    ELSE Some(CashHolding("chase", "Cash & sweep funds", row.value))

Merrill_parse_cash_row(row) ==
    IF ~HasCashMarker(row) THEN None
    ELSE IF {"quantity", "value"} \cap row.blank # {} THEN None
    ELSE IF Abs(row.quantity - row.value) > 0 THEN None
    ELSE Some(CashHolding("merrill_edge", row.description, row.value))

\* _extract_dollar_change / _extract_percentage_change read a cell without
\* text as 0.0; every other blank cell raises ValueError, as a missing symbol
\* does
Merrill_parse_position_row(row) ==
    LET no_day_change == "day_dollars" \in row.blank
    IN  IF row.symbol = "" THEN None
        ELSE IF {"price", "quantity", "unit_cost", "cost_basis", "value"}
                    \cap row.blank # {}
        THEN None
        ELSE Some(Holding(row.symbol, row.description, row.quantity,
                          Rat(row.price, 1), Rat(row.unit_cost, 1),
                          row.cost_basis, row.value,
                          IF no_day_change THEN Zero ELSE row.day_percent,
                          IF no_day_change THEN 0 ELSE row.day_dollars,
                          row.gain, row.gain_percent, row.pct,
                          BrokerMap("merrill_edge", row.value)))

Etrade_parse_cash_position(row) ==
    IF "value" \in row.blank THEN None
    ELSE IF row.value <= 0 THEN None
    ELSE Some(CashHolding("etrade", "Cash & sweep funds", row.value))

\* parse_decimal raises ValueError on a blank quantity, last_price or value
\* (the row is skipped), parse_decimal_optional reads a blank cell as 0.0; the
\* extracted row has no "total_cost" key, so cost_basis reads as 0.0
Etrade_parse_position(row) ==
    LET no_day_change == "day_dollars" \in row.blank
    IN  IF {"quantity", "price", "value"} \cap row.blank # {} THEN None
        ELSE Some(Holding(row.symbol, row.description, row.quantity,
                          Rat(row.price, 1),
                          IF "unit_cost" \in row.blank
                          THEN Zero ELSE Rat(row.unit_cost, 1),
                          0, row.value,
                          IF no_day_change THEN Zero ELSE row.day_percent,
                          IF no_day_change THEN 0 ELSE row.day_dollars,
                          row.gain, row.gain_percent, None,
                          BrokerMap("etrade", row.value)))

\* Chase: every row selected as a position row first, then every row
\* carrying the cash link
RECURSIVE Chase_parse_rows(_, _)
Chase_parse_rows(rows, kind) ==
    IF rows = <<>> THEN <<>>
    ELSE (IF kind = "cash"
          THEN (IF HasCashMarker(Head(rows))
                THEN Chase_parse_cash_row(Head(rows)) ELSE <<>>)
          ELSE (IF HasPositionMarkup(Head(rows))
                THEN Chase_parse_position_row(Head(rows)) ELSE <<>>))
         \o Chase_parse_rows(Tail(rows), kind)

\* Merrill: cash detection first on every row; the first cash row ends the
\* table, any other row goes to the position parser
RECURSIVE Merrill_parse_rows(_)
Merrill_parse_rows(rows) ==
    IF rows = <<>> THEN <<>>
    ELSE IF Merrill_parse_cash_row(Head(rows)) # None
         THEN Merrill_parse_cash_row(Head(rows))
         ELSE Merrill_parse_position_row(Head(rows))
              \o Merrill_parse_rows(Tail(rows))

\* variant: the grid rows are handed on as they are, a row without a symbol
\* included
RECURSIVE Etrade_extract_positions_data_keeping_blank_symbols(_)
Etrade_extract_positions_data_keeping_blank_symbols(rows) ==
    IF rows = <<>> THEN <<>>
    ELSE (IF HasCashMarker(Head(rows)) /\ "value" \notin Head(rows).blank
          THEN <<[Head(rows) EXCEPT !.symbol = "Cash"]>>
          ELSE <<Head(rows)>>)
         \o Etrade_extract_positions_data_keeping_blank_symbols(Tail(rows))

\* E*TRADE, the script run in the page: a row with the cash wrapper and a
\* value becomes the row "Cash"; any other row without a symbol is left out
RECURSIVE Etrade_extract_positions_data_via_js(_)
Etrade_extract_positions_data_via_js(rows) ==
    IF rows = <<>> THEN <<>>
    ELSE (IF HasCashMarker(Head(rows)) /\ "value" \notin Head(rows).blank
          THEN <<[Head(rows) EXCEPT !.symbol = "Cash"]>>
          ELSE IF Head(rows).symbol = "" THEN <<>>
          ELSE <<Head(rows)>>)
         \o Etrade_extract_positions_data_via_js(Tail(rows))

\* E*TRADE: a row whose symbol is "Cash" goes to the cash parser only
RECURSIVE Etrade_parse_rows(_)
Etrade_parse_rows(rows) ==
    IF rows = <<>> THEN <<>>
    ELSE (IF Head(rows).symbol = "Cash"
          THEN Etrade_parse_cash_position(Head(rows))
          ELSE Etrade_parse_position(Head(rows)))
         \o Etrade_parse_rows(Tail(rows))

(***************************************************************************)
(* Outcome of a call: a returned value, or a raised exception (err is its  *)
(* message); log is the most severe line the call wrote to the log.        *)
(***************************************************************************)
Returns(v, log) == [ok |-> TRUE, val |-> v, err |-> "", log |-> log]

Raises(msg) == [ok |-> FALSE, val |-> None, err |-> msg, log |-> ""]

\* EtradeCrawler._parse_positions_from_dom, the loop over raw_rows: a row
\* without a symbol raises ValueError out of the loop
Etrade_holding_list(raw_rows) ==
    IF \E i \in 1..Len(raw_rows) : raw_rows[i].symbol = ""
    THEN Raises("Symbol is required for every row")
    ELSE Returns(Etrade_parse_rows(raw_rows), "")

(***************************************************************************)
(* Sanity checkers                                                         *)
(***************************************************************************)
\* ChaseCrawler._parse_total_row: every failure is re-raised as RuntimeError
Chase_parse_total_row(totals) ==
    IF totals = None
    THEN Raises("Error parsing totals row: Could not find totals row in Chase portfolio")
    ELSE IF totals[1].gain = None
    THEN Raises("Error parsing totals row: Value string cannot be empty")
    ELSE Returns([current_value |-> totals[1].value,
                  unrealized_gain_loss |-> totals[1].gain[1]], "")

Chase_sanity_check(totals, holdings) ==
    LET total_row_data == Chase_parse_total_row(totals)
        reported_total_value == total_row_data.val.current_value
        reported_unrealized_gain == total_row_data.val.unrealized_gain_loss
        computed_total_value == SumField(holdings, "current_value")
        computed_unrealized_gain == SumField(holdings, "unrealized_gain_loss")
        value_diff == Abs(computed_total_value - reported_total_value)
        unrealized_diff == Abs(computed_unrealized_gain - reported_unrealized_gain)
    IN  IF ~total_row_data.ok THEN Raises(total_row_data.err)
        ELSE IF computed_total_value = 0 THEN Raises("division by zero")
        ELSE IF QuotientExceedsTolerance(value_diff, computed_total_value)
        THEN Raises("Total value mismatch")
        ELSE IF computed_unrealized_gain = 0 THEN Raises("division by zero")
        ELSE IF QuotientExceedsTolerance(unrealized_diff, computed_unrealized_gain)
        THEN Raises("Unrealized gain mismatch")
        ELSE Returns(None, "info")

\* MerrillCrawler._extract_total_row / _parse_total_row: None when the table
\* has no "Total" row; a blank or "--" unrealized cell reads as 0.0
Merrill_extract_total_row(totals) ==
    IF totals = None THEN None
    ELSE Some([current_value |-> totals[1].value,
               unrealized_gain_loss |->
                   IF totals[1].gain = None THEN 0 ELSE totals[1].gain[1]])

Merrill_sanity_check(totals, table_holdings) ==
    LET total_row == Merrill_extract_total_row(totals)
        reported_total_value == total_row[1].current_value
        reported_unrealized_gain == total_row[1].unrealized_gain_loss
        computed_total_value == SumField(table_holdings, "current_value")
        computed_unrealized_gain == SumField(table_holdings, "unrealized_gain_loss")
        value_diff == computed_total_value - reported_total_value
        unrealized_diff == computed_unrealized_gain - reported_unrealized_gain
    IN  IF total_row = None
        THEN Raises("Total row not found in Merrill holdings table")
        ELSE IF reported_total_value = 0 THEN Raises("float division by zero")
        ELSE IF QuotientExceedsTolerance(Abs(value_diff), reported_total_value)
        THEN Returns(FALSE, "fatal")
        ELSE IF reported_unrealized_gain = 0 THEN Raises("float division by zero")
        ELSE IF QuotientExceedsTolerance(Abs(unrealized_diff), reported_unrealized_gain)
        THEN Returns(FALSE, "fatal")
        ELSE Returns(TRUE, "")

\* EtradeCrawler._parse_total_row: None when the row is not found or one of
\* its cells does not parse
Etrade_parse_total_row(totals) ==
    IF totals = None THEN None
    ELSE IF totals[1].gain = None THEN None
    ELSE Some([total_value |-> totals[1].value,
               unrealized_gain_loss |-> totals[1].gain[1]])

Etrade_sanity_check(totals, holdings) ==
    LET total_row_data == Etrade_parse_total_row(totals)
        reported_total_value == total_row_data[1].total_value
        reported_unrealized_gain == total_row_data[1].unrealized_gain_loss
        computed_total_value == SumField(holdings, "current_value")
        computed_unrealized_gain == SumField(holdings, "unrealized_gain_loss")
        value_diff == Abs(computed_total_value - reported_total_value)
        unrealized_diff == Abs(computed_unrealized_gain - reported_unrealized_gain)
    IN  IF total_row_data = None
        THEN Raises("Could not find totals row in E*TRADE portfolio")
        ELSE IF QuotientExceedsTolerance(value_diff, Max(computed_total_value, 1))
        THEN Raises("Total value mismatch")
        ELSE IF QuotientExceedsTolerance(unrealized_diff,
                                         Max(Abs(computed_unrealized_gain), 1))
        THEN Returns(None, "warning")
        ELSE Returns(None, "info")

(***************************************************************************)
(* Intra-broker aggregator (Merrill)                                       *)
(***************************************************************************)
RECURSIVE RatSum(_)
RatSum(s) == IF s = <<>> THEN Zero ELSE RatAdd(Head(s), RatSum(Tail(s)))

\* the symbols of a list of holdings, in order of first appearance
RECURSIVE SymbolsInOrder(_)
SymbolsInOrder(holdings) ==
    IF holdings = <<>> THEN <<>>
    ELSE LET front == SymbolsInOrder(SubSeq(holdings, 1, Len(holdings) - 1))
             last == holdings[Len(holdings)].symbol
         IN  IF \E i \in 1..Len(front) : front[i] = last
             THEN front ELSE Append(front, last)

SymbolGroup(holdings, symbol) ==
    SelectSeq(holdings, LAMBDA h : h.symbol = symbol)

\* variant: the price is the plain mean of the member prices
Merrill_combine_symbol_group_mean_price(symbol, holdings) ==
    LET base_holding == holdings[1]
        total_quantity == SumField(holdings, "quantity")
        total_cost_basis == SumField(holdings, "cost_basis")
        total_current_value == SumField(holdings, "current_value")
        total_day_change_dollars == SumField(holdings, "day_change_dollars")
        total_unrealized_gain_loss == SumField(holdings, "unrealized_gain_loss")
        price_sum == RatSum([i \in 1..Len(holdings) |-> holdings[i].price])
        with_percentage ==
            SelectSeq(holdings, LAMBDA h : h.portfolio_percentage # None)
        portfolio_percentages ==
            [i \in 1..Len(with_percentage) |-> with_percentage[i].portfolio_percentage[1]]
    IN  IF holdings = <<>> THEN Raises("No holdings provided for symbol")
        ELSE IF total_current_value # 0
                /\ total_current_value - total_day_change_dollars = 0
        THEN Raises("division by zero")
        ELSE Returns(Holding(symbol, base_holding.description, total_quantity,
                             Rat(price_sum.num, price_sum.den * Len(holdings)),
                             IF total_quantity # 0
                             THEN Rat(total_cost_basis, total_quantity) ELSE Zero,
                             total_cost_basis, total_current_value,
                             IF total_current_value # 0
                             THEN Rat(total_day_change_dollars,
                                      total_current_value - total_day_change_dollars)
                             ELSE Zero,
                             total_day_change_dollars,
                             total_unrealized_gain_loss,
                             IF total_cost_basis # 0
                             THEN Rat(total_unrealized_gain_loss, total_cost_basis)
                             ELSE Zero,
                             IF portfolio_percentages # <<>>
                             THEN Some(RatSum(portfolio_percentages)) ELSE None,
                             BrokerMap("merrill_edge", total_current_value)),
                     "")

Merrill_combine_symbol_group(symbol, holdings) ==
    LET base_holding == holdings[1]
        total_quantity == SumField(holdings, "quantity")
        total_cost_basis == SumField(holdings, "cost_basis")
        total_current_value == SumField(holdings, "current_value")
        total_day_change_dollars == SumField(holdings, "day_change_dollars")
        total_unrealized_gain_loss == SumField(holdings, "unrealized_gain_loss")
        weighted_avg_price ==
            IF total_quantity # 0
            THEN Rat(total_current_value, total_quantity) ELSE Zero
        weighted_avg_unit_cost ==
            IF total_quantity # 0
            THEN Rat(total_cost_basis, total_quantity) ELSE Zero
        day_change_percent ==
            IF total_current_value # 0
            THEN Rat(total_day_change_dollars,
                     total_current_value - total_day_change_dollars)
            ELSE Zero
        unrealized_gain_loss_percent ==
            IF total_cost_basis # 0
            THEN Rat(total_unrealized_gain_loss, total_cost_basis) ELSE Zero
        with_percentage ==
            SelectSeq(holdings, LAMBDA h : h.portfolio_percentage # None)
        portfolio_percentages ==
            [i \in 1..Len(with_percentage) |-> with_percentage[i].portfolio_percentage[1]]
        portfolio_percentage ==
            IF portfolio_percentages # <<>>
            THEN Some(RatSum(portfolio_percentages)) ELSE None
    IN  IF holdings = <<>> THEN Raises("No holdings provided for symbol")
        ELSE IF total_current_value # 0
                /\ total_current_value - total_day_change_dollars = 0
        THEN Raises("division by zero")
        ELSE Returns(Holding(symbol, base_holding.description, total_quantity,
                             weighted_avg_price, weighted_avg_unit_cost,
                             total_cost_basis, total_current_value,
                             day_change_percent, total_day_change_dollars,
                             total_unrealized_gain_loss,
                             unrealized_gain_loss_percent,
                             portfolio_percentage,
                             BrokerMap("merrill_edge", total_current_value)),
                     "")

Merrill_combine_holdings_by_symbol(holdings) ==
    LET symbols == SymbolsInOrder(holdings)
        groups == [i \in 1..Len(symbols) |->
                      Merrill_combine_symbol_group(symbols[i],
                                                   SymbolGroup(holdings, symbols[i]))]
    IN  IF \E i \in 1..Len(groups) : ~groups[i].ok
        THEN Raises("division by zero")
        ELSE Returns([i \in 1..Len(groups) |-> groups[i].val], "")

(***************************************************************************)
(* Cross-broker aggregator (fetch_all_positions.py)                        *)
(***************************************************************************)
\* the symbols that can occur, in ascending string order (sorted())
SortedSymbols == <<"AAPL", "USD_CASH">>

EmptyMap == [b \in {} |-> 0]

\* variant: the brokers map of the first member holding is carried over
merge_broker_maps_of_base(holdings) ==
    IF holdings = <<>> THEN EmptyMap ELSE holdings[1].brokers

\* variant: a broker's entry is overwritten by its last member holding
RECURSIVE merge_broker_maps_overwriting(_)
merge_broker_maps_overwriting(holdings) ==
    IF holdings = <<>> THEN EmptyMap
    ELSE LET merged == merge_broker_maps_overwriting(SubSeq(holdings, 1, Len(holdings) - 1))
             broker_map == holdings[Len(holdings)].brokers
         IN  [b \in DOMAIN merged \cup DOMAIN broker_map |->
                 IF b \in DOMAIN broker_map THEN broker_map[b] ELSE merged[b]]

RECURSIVE merge_broker_maps(_)
merge_broker_maps(holdings) ==
    IF holdings = <<>> THEN EmptyMap
    ELSE LET merged == merge_broker_maps(SubSeq(holdings, 1, Len(holdings) - 1))
             broker_map == holdings[Len(holdings)].brokers
         IN  [b \in DOMAIN merged \cup DOMAIN broker_map |->
                 (IF b \in DOMAIN merged THEN merged[b] ELSE 0)
                 + (IF b \in DOMAIN broker_map THEN broker_map[b] ELSE 0)]

\* variant: the quantity of the first member instead of the group's sum
combine_symbol_group_first_quantity(symbol, holdings) ==
    LET base == holdings[1]
        total_cost_basis == SumField(holdings, "cost_basis")
        total_current_value == SumField(holdings, "current_value")
        total_day_change_dollars == SumField(holdings, "day_change_dollars")
        total_unrealized_gain_loss == SumField(holdings, "unrealized_gain_loss")
        prior_value == total_current_value - total_day_change_dollars
    IN  Holding(symbol, base.description, base.quantity,
                IF base.quantity # 0
                THEN Rat(total_current_value, base.quantity) ELSE Zero,
                IF base.quantity # 0
                THEN Rat(total_cost_basis, base.quantity) ELSE Zero,
                total_cost_basis, total_current_value,
                IF prior_value # 0
                THEN Rat(total_day_change_dollars, prior_value) ELSE Zero,
                total_day_change_dollars, total_unrealized_gain_loss,
                IF total_cost_basis # 0
                THEN Rat(total_unrealized_gain_loss, total_cost_basis) ELSE Zero,
                None, merge_broker_maps(holdings))

combine_symbol_group(symbol, holdings) ==
    LET base == holdings[1]
        total_quantity == SumField(holdings, "quantity")
        total_cost_basis == SumField(holdings, "cost_basis")
        total_current_value == SumField(holdings, "current_value")
        total_day_change_dollars == SumField(holdings, "day_change_dollars")
        total_unrealized_gain_loss == SumField(holdings, "unrealized_gain_loss")
        weighted_price ==
            IF total_quantity # 0
            THEN Rat(total_current_value, total_quantity) ELSE Zero
        weighted_unit_cost ==
            IF total_quantity # 0
            THEN Rat(total_cost_basis, total_quantity) ELSE Zero
        prior_value == total_current_value - total_day_change_dollars
        day_change_percent ==
            IF prior_value # 0
            THEN Rat(total_day_change_dollars, prior_value) ELSE Zero
        unrealized_gain_loss_percent ==
            IF total_cost_basis # 0
            THEN Rat(total_unrealized_gain_loss, total_cost_basis) ELSE Zero
        combined_brokers == merge_broker_maps(holdings)
    IN  Holding(symbol, base.description, total_quantity, weighted_price,
                weighted_unit_cost, total_cost_basis, total_current_value,
                day_change_percent, total_day_change_dollars,
                total_unrealized_gain_loss, unrealized_gain_loss_percent,
                None, combined_brokers)

\* the holdings of the successful results, in result order
RECURSIVE SuccessfulHoldings(_)
SuccessfulHoldings(rs) ==
    IF rs = <<>> THEN <<>>
    ELSE (IF Head(rs).success THEN Head(rs).holdings ELSE <<>>)
         \o SuccessfulHoldings(Tail(rs))

combine_successful_holdings(rs) ==
    LET all == SuccessfulHoldings(rs)
        keys == {all[i].symbol : i \in 1..Len(all)}
        sorted == SelectSeq(SortedSymbols, LAMBDA sym : sym \in keys)
    IN  [i \in 1..Len(sorted) |->
            combine_symbol_group(sorted[i], SymbolGroup(all, sorted[i]))]

\* variant: a portfolio whose total value is negative keeps its percentages
assign_portfolio_percentages_positive_only(holdings) ==
    LET total_value == SumField(holdings, "current_value")
    IN  IF total_value <= 0 THEN holdings
        ELSE [i \in 1..Len(holdings) |->
                 [holdings[i] EXCEPT !.portfolio_percentage =
                      Some(Rat(holdings[i].current_value, total_value))]]

assign_portfolio_percentages(holdings) ==
    LET total_value == SumField(holdings, "current_value")
    IN  IF total_value = 0 THEN holdings
        ELSE [i \in 1..Len(holdings) |->
                 [holdings[i] EXCEPT !.portfolio_percentage =
                      Some(Rat(holdings[i].current_value, total_value))]]

\* the fields class Portfolio declares; none of them has a default
PortfolioFields ==
    {"holdings", "total_value", "total_cost_basis",
     "total_unrealized_gain_loss", "total_unrealized_gain_loss_percent",
     "last_updated", "brokers_updated"}

\* Portfolio(**kwargs): validation fails when a declared field is missing;
\* keyword arguments that are not declared fields are dropped
Portfolio(kwargs) ==
    IF PortfolioFields \subseteq DOMAIN kwargs
    THEN Returns([f \in PortfolioFields |-> kwargs[f]], "")
    ELSE Raises("ValidationError: field required")

\* the keyword arguments fetch_all_positions passes to Portfolio
PortfolioArguments(holdings_with_percentages) ==
    LET total_value == SumField(holdings_with_percentages, "current_value")
        total_cost_basis == SumField(holdings_with_percentages, "cost_basis")
        total_unrealized ==
            SumField(holdings_with_percentages, "unrealized_gain_loss")
        total_unrealized_percent ==
            IF total_cost_basis # 0
            THEN Rat(total_unrealized, total_cost_basis) ELSE Zero
        total_day_change_dollars ==
            SumField(holdings_with_percentages, "day_change_dollars")
        prior_value == total_value - total_day_change_dollars
        total_day_change_percent ==
            IF prior_value # 0
            THEN Rat(total_day_change_dollars, prior_value) ELSE Zero
    IN  [holdings |-> holdings_with_percentages,
         total_value |-> total_value,
         total_cost_basis |-> total_cost_basis,
         total_unrealized_gain_loss |-> total_unrealized,
         total_unrealized_gain_loss_percent |-> total_unrealized_percent,
         last_updated |-> "utcnow",
         day_change_percent |-> total_day_change_percent,
         day_change_dollars |-> total_day_change_dollars]

(***************************************************************************)
(* Numeric text normalizers (_clean_decimal_text, _clean_percentage_text)  *)
(*                                                                         *)
(* A cell text is a sequence of characters; the literals "Loss of" and     *)
(* "Gain of" of the Chase and Merrill pages are one element each.          *)
(***************************************************************************)
Chars == {"(", ")", "-", "+", "$", ",", "%", ".", " ", "1", "2", "Loss of", "Gain of"}

Digits == {"1", "2"}

Texts == SeqsUpTo(Chars, MaxChars)

DigitValue(c) == IF c = "1" THEN 1 ELSE 2

RECURSIVE DecimalValue(_)
DecimalValue(digits) ==
    IF digits = <<>> THEN 0
    ELSE 10 * DecimalValue(SubSeq(digits, 1, Len(digits) - 1))
         + DigitValue(digits[Len(digits)])

RECURSIVE Pow10(_)
Pow10(n) == IF n = 0 THEN 1 ELSE 10 * Pow10(n - 1)

RatNeg(p) == [num |-> -p.num, den |-> p.den]

\* c in value_str
Contains(value_str, c) == \E i \in DOMAIN value_str : value_str[i] = c

\* value_str.replace(c, '') for every c of cs; re.sub(r'[cs]', '', value_str)
Without(value_str, cs) == SelectSeq(value_str, LAMBDA c : c \notin cs)

\* value_str.strip()
strip(value_str) ==
    LET kept == {i \in DOMAIN value_str : value_str[i] # " "}
        first == CHOOSE i \in kept : \A j \in kept : i <= j
        last == CHOOSE i \in kept : \A j \in kept : j <= i
    IN  IF kept = {} THEN <<>> ELSE SubSeq(value_str, first, last)

\* the last index of the run of digits that starts at index i (i - 1 when
\* there is no digit at i)
RECURSIVE RunEnd(_, _)
RunEnd(s, i) ==
    IF i <= Len(s) /\ s[i] \in Digits THEN RunEnd(s, i + 1) ELSE i - 1

\* re.search(r'[signs]?\d+\.?\d*', cleaned): the leftmost match, greedy;
\* None when nothing matches
re_search(signs, cleaned) ==
    LET starts == {i \in DOMAIN cleaned :
                      \/ cleaned[i] \in Digits
                      \/ /\ cleaned[i] \in signs
                         /\ i < Len(cleaned)
                         /\ cleaned[i + 1] \in Digits}
        start == CHOOSE i \in starts : \A j \in starts : i <= j
        whole_end == RunEnd(cleaned, IF cleaned[start] \in signs
                                     THEN start + 1 ELSE start)
        has_point == whole_end < Len(cleaned) /\ cleaned[whole_end + 1] = "."
        match_end == IF has_point THEN RunEnd(cleaned, whole_end + 2)
                     ELSE whole_end
    IN  IF starts = {} THEN None
        ELSE Some(SubSeq(cleaned, start, match_end))

\* float(number_str) of a text matched by the pattern above
float(number_str) ==
    LET signed == number_str[1] \in {"-", "+"}
        body == IF signed THEN Tail(number_str) ELSE number_str
        points == {i \in DOMAIN body : body[i] = "."}
        point == CHOOSE i \in points : TRUE
        whole == IF points = {} THEN body ELSE SubSeq(body, 1, point - 1)
        fraction == IF points = {} THEN <<>>
                    ELSE SubSeq(body, point + 1, Len(body))
        magnitude == Rat(DecimalValue(whole) * Pow10(Len(fraction))
                             + DecimalValue(fraction),
                         Pow10(Len(fraction)))
    IN  IF number_str[1] = "-" THEN RatNeg(magnitude) ELSE magnitude

\* x / 100
Percent(x) == Rat(x.num, x.den * 100)

\* the text without its parentheses when it holds both "(" and ")"
HasParentheses(value_str) == Contains(value_str, "(") /\ Contains(value_str, ")")

\* the variant that falls back to 0.0 when the text holds no number
Chase_clean_decimal_text_or_zero(value_str) ==
    IF value_str = <<>> THEN Raises("Value string cannot be empty")
    ELSE LET stripped == strip(value_str)
             is_negative == HasParentheses(stripped)
             unwrapped == IF is_negative THEN Without(stripped, {"(", ")"})
                          ELSE stripped
             cleaned == Without(unwrapped, {"$", ","})
             number_match == re_search({"-"}, cleaned)
             result == float(number_match[1])
         IN  IF number_match = None
             THEN Returns(Zero, "")
             ELSE Returns(IF is_negative THEN RatNeg(result) ELSE result, "")

\* ChaseCrawler._clean_decimal_text
Chase_clean_decimal_text(value_str) ==
    IF value_str = <<>> THEN Raises("Value string cannot be empty")
    ELSE LET stripped == strip(value_str)
             is_negative == HasParentheses(stripped)
             unwrapped == IF is_negative THEN Without(stripped, {"(", ")"})
                          ELSE stripped
             cleaned == Without(unwrapped, {"$", ","})
             number_match == re_search({"-"}, cleaned)
             result == float(number_match[1])
         IN  IF number_match = None
             THEN Raises("No valid number found in text")
             ELSE Returns(IF is_negative THEN RatNeg(result) ELSE result, "")

\* MerrillCrawler._clean_decimal_text: the pattern also takes a leading "+"
Merrill_clean_decimal_text(value_str) ==
    IF value_str = <<>> THEN Raises("Value string cannot be empty")
    ELSE LET stripped == strip(value_str)
             is_negative == HasParentheses(stripped)
             unwrapped == IF is_negative THEN Without(stripped, {"(", ")"})
                          ELSE stripped
             cleaned == Without(unwrapped, {"$", ","})
             number_match == re_search({"-", "+"}, cleaned)
             result == float(number_match[1])
         IN  IF number_match = None
             THEN Raises("No valid number found in text")
             ELSE Returns(IF is_negative THEN RatNeg(result) ELSE result, "")

\* EtradeCrawler._clean_decimal_text: "%" and "+" are removed as well
Etrade_clean_decimal_text(value_str) ==
    IF value_str = <<>> THEN Raises("Value string cannot be empty")
    ELSE LET stripped == strip(value_str)
             is_negative == HasParentheses(stripped)
             unwrapped == IF is_negative THEN Without(stripped, {"(", ")"})
                          ELSE stripped
             cleaned == Without(unwrapped, {",", "$", "%", "+"})
             number_match == re_search({"-"}, cleaned)
             result == float(number_match[1])
         IN  IF number_match = None
             THEN Raises("No valid number found in text")
             ELSE Returns(IF is_negative THEN RatNeg(result) ELSE result, "")

\* ChaseCrawler._clean_percentage_text: parentheses, else "Loss of", else
\* "Gain of"
Chase_clean_percentage_text(value_str) ==
    IF value_str = <<>> THEN Raises("Percentage string cannot be empty")
    ELSE LET stripped == strip(value_str)
             is_negative == \/ HasParentheses(stripped)
                            \/ Contains(stripped, "Loss of")
             unwrapped ==
                 IF HasParentheses(stripped)
                 THEN Without(stripped, {"(", ")"})
                 ELSE IF Contains(stripped, "Loss of")
                 THEN strip(Without(stripped, {"Loss of"}))
                 ELSE IF Contains(stripped, "Gain of")
                 THEN strip(Without(stripped, {"Gain of"}))
                 ELSE stripped
             cleaned == Without(unwrapped, {"%", "+"})
             number_match == re_search({"-"}, cleaned)
             result == Percent(float(number_match[1]))
         IN  IF number_match = None
             THEN Raises("No valid percentage found in text")
             ELSE Returns(IF is_negative THEN RatNeg(result) ELSE result, "")

\* MerrillCrawler._clean_percentage_text
Merrill_clean_percentage_text(value_str) ==
    IF value_str = <<>> THEN Raises("Percentage string cannot be empty")
    ELSE LET stripped == strip(value_str)
             is_negative == \/ HasParentheses(stripped)
                            \/ Contains(stripped, "Loss of")
             unwrapped ==
                 IF HasParentheses(stripped)
                 THEN Without(stripped, {"(", ")"})
                 ELSE IF Contains(stripped, "Loss of")
                 THEN strip(Without(stripped, {"Loss of"}))
                 ELSE IF Contains(stripped, "Gain of")
                 THEN strip(Without(stripped, {"Gain of"}))
                 ELSE stripped
             cleaned == Without(unwrapped, {"%", "+"})
             number_match == re_search({"-"}, cleaned)
             result == Percent(float(number_match[1]))
         IN  IF number_match = None
             THEN Raises("No valid percentage found in text")
             ELSE Returns(IF is_negative THEN RatNeg(result) ELSE result, "")

\* EtradeCrawler._clean_percentage_text: parentheses only
Etrade_clean_percentage_text(value_str) ==
    IF value_str = <<>> THEN Raises("Percentage string cannot be empty")
    ELSE LET stripped == strip(value_str)
             is_negative == HasParentheses(stripped)
             unwrapped == IF is_negative THEN Without(stripped, {"(", ")"})
                          ELSE stripped
             cleaned == Without(unwrapped, {"%", "+"})
             number_match == re_search({"-"}, cleaned)
             result == Percent(float(number_match[1]))
         IN  IF number_match = None
             THEN Raises("No valid percentage found in text")
             ELSE Returns(IF is_negative THEN RatNeg(result) ELSE result, "")

\* the normalizer of a broker's crawler
clean_decimal_text(b, value_str) ==
    CASE b = "chase" -> Chase_clean_decimal_text(value_str)
      [] b = "merrill_edge" -> Merrill_clean_decimal_text(value_str)
      [] b = "etrade" -> Etrade_clean_decimal_text(value_str)

clean_percentage_text(b, value_str) ==
    CASE b = "chase" -> Chase_clean_percentage_text(value_str)
      [] b = "merrill_edge" -> Merrill_clean_percentage_text(value_str)
      [] b = "etrade" -> Etrade_clean_percentage_text(value_str)

(***************************************************************************)
(* Snapshot store (storage/database.py)                                    *)
(***************************************************************************)
\* datetime values of last_updated: a calendar date and a time of day
LastUpdated == [date : {"2025-01-01", "2025-01-02"}, time : {"17:00"}]

\* last_updated.strftime('%Y-%m-%d')
strftime(last_updated) == last_updated.date

Dates == {strftime(last_updated) : last_updated \in LastUpdated}

\* holdings a portfolio may list: the long position and the cash balance
\* parsed from the rows of RowPool
HoldingPool ==
    UNION {{Merrill_parse_rows(<<row>>)[i] :
               i \in DOMAIN Merrill_parse_rows(<<row>>)} :
           row \in {r \in RowPool : r.value > 0}}

HoldingLists == SeqsUpTo(HoldingPool, MaxHoldings)

\* the attributes of an object built from holdings at last_updated
WithAttributes(holdings, last_updated) ==
    [PortfolioArguments(assign_portfolio_percentages(holdings))
         EXCEPT !.last_updated = last_updated]
    @@ [brokers_updated |-> <<"chase">>]

\* the objects handed to save_portfolio_snapshot (portfolio: Any): instances
\* of models.portfolio.Portfolio, and objects that also carry the day change
\* attributes the INSERT reads
PortfolioObjects ==
    {Portfolio(WithAttributes(hs, lu)).val :
         hs \in HoldingLists, lu \in LastUpdated}
    \cup {WithAttributes(hs, lu) : hs \in HoldingLists, lu \in LastUpdated}

\* json.dumps(h.brokers): the JSON text of the map
json_dumps(brokers) == [json |-> brokers]

\* the row of portfolio_snapshots the INSERT OR REPLACE writes
PortfolioRow(snapshot_date, p) ==
    [date |-> snapshot_date,
     timestamp |-> p.last_updated,
     total_value |-> p.total_value,
     total_cost_basis |-> p.total_cost_basis,
     total_unrealized_gain_loss |-> p.total_unrealized_gain_loss,
     total_unrealized_gain_loss_percent |->
         p.total_unrealized_gain_loss_percent,
     day_change_dollars |-> p.day_change_dollars,
     day_change_percent |-> p.day_change_percent]

\* one tuple of holdings_data
HoldingRow(snapshot_date, h) ==
    [date |-> snapshot_date,
     symbol |-> h.symbol,
     description |-> h.description,
     quantity |-> h.quantity,
     price |-> h.price,
     unit_cost |-> h.unit_cost,
     cost_basis |-> h.cost_basis,
     current_value |-> h.current_value,
     day_change_percent |-> h.day_change_percent,
     day_change_dollars |-> h.day_change_dollars,
     unrealized_gain_loss |-> h.unrealized_gain_loss,
     unrealized_gain_loss_percent |-> h.unrealized_gain_loss_percent,
     portfolio_percentage |-> h.portfolio_percentage,
     brokers |-> json_dumps(h.brokers)]

\* holdings_data
HoldingRows(snapshot_date, holdings) ==
    {HoldingRow(snapshot_date, holdings[i]) : i \in DOMAIN holdings}

\* executemany(INSERT INTO holdings_snapshots ...) meets the primary key
\* (date, symbol) twice
ViolatesPrimaryKey(holdings) ==
    \E i, j \in DOMAIN holdings :
        i # j /\ holdings[i].symbol = holdings[j].symbol

\* DatabaseManager.save_portfolio_snapshot on the tables ps and hs: the
\* outcome of the call and the tables after it. An exception leaves the
\* with-block of the connection, which rolls the transaction back.
save_portfolio_snapshot(ps, hs, p) ==
    LET snapshot_date == strftime(p.last_updated)
    IN  IF {"day_change_dollars", "day_change_percent"} \subseteq DOMAIN p
        THEN IF ViolatesPrimaryKey(p.holdings)
             THEN [outcome |-> Raises("IntegrityError: UNIQUE constraint failed"),
                   portfolio_snapshots |-> ps,
                   holdings_snapshots |-> hs]
             ELSE [outcome |-> Returns(snapshot_date, ""),
                   portfolio_snapshots |->
                       {r \in ps : r.date # snapshot_date}
                       \cup {PortfolioRow(snapshot_date, p)},
                   holdings_snapshots |->
                       {r \in hs : r.date # snapshot_date}
                       \cup HoldingRows(snapshot_date, p.holdings)]
        ELSE [outcome |-> Raises("AttributeError: 'Portfolio' object has no attribute 'day_change_dollars'"),
              portfolio_snapshots |-> ps,
              holdings_snapshots |-> hs]

(***************************************************************************)
(* State                                                                   *)
(*   fpc       position of the caller: "loop" inside fetch_all_positions'  *)
(*             for loop, "returned"/"raised" once it has ended, "cli" when *)
(*             a single crawler is run on its own (run_*_crawler.py),      *)
(*             "parse" when only the row loops of parse_portfolio_html and *)
(*             the intra-broker aggregator are applied to table bodies,    *)
(*             "text" when a numeric text normalizer is applied to a cell  *)
(*             text, "store" when snapshots are saved to the database      *)
(*   idx       index into BROKER_CRAWLERS of the crawler being run         *)
(*   results   fetch_all_positions' list of CrawlerResults                 *)
(*   cpc       position inside BaseCrawler.crawl: "idle", "login",         *)
(*             "locate" (scrape_portfolio up to table discovery),          *)
(*             "tables" (rows being parsed), "done"                        *)
(*   broker    broker_name of the running crawler                          *)
(*   holdings  parse_portfolio_html's list of holdings collected so far    *)
(*   ntables   tables of the page handled so far                           *)
(*   table, table_holdings, check                                          *)
(*             the table last read, the holdings parsed from it and the    *)
(*             outcome of its sanity check (kept for a stand-alone run)    *)
(*   result    the CrawlerResult crawl() returned last                     *)
(*   combined_holdings, holdings_with_percentages, portfolio               *)
(*             fetch_all_positions' locals after the loop; portfolio is    *)
(*             the outcome of the Portfolio(...) call                      *)
(*   login_success                                                         *)
(*             crawl()'s local of that name: what login() returned (None   *)
(*             before login() has returned)                                *)
(*   value_str, normalizer, number                                         *)
(*             the cell text handed to a numeric text normalizer, the      *)
(*             normalizer applied ("decimal" or "percent", "" before the   *)
(*             call) and the outcome of the call                           *)
(*   portfolio_snapshots, holdings_snapshots                               *)
(*             the rows of the two snapshot tables of the SQLite database  *)
(*   saved     for each date, the last call of save_portfolio_snapshot for *)
(*             it: its argument and its outcome (None: no call yet)        *)
(***************************************************************************)
VARIABLES fpc, idx, results, cpc, broker, holdings, ntables,
          table, table_holdings, check, result,
          combined_holdings, holdings_with_percentages, portfolio,
          login_success, value_str, normalizer, number,
          portfolio_snapshots, holdings_snapshots, saved

vars == <<fpc, idx, results, cpc, broker, holdings, ntables,
          table, table_holdings, check, result,
          combined_holdings, holdings_with_percentages, portfolio,
          login_success, value_str, normalizer, number,
          portfolio_snapshots, holdings_snapshots, saved>>

fetchLocals == <<combined_holdings, holdings_with_percentages, portfolio>>

textLocals == <<value_str, normalizer, number>>

snapshotStore == <<portfolio_snapshots, holdings_snapshots, saved>>

RowLists == SeqsUpTo(RowPool, MaxRows)

\* a holdings table: without a tbody nothing else of it is read
Tables ==
    {[tbody |-> FALSE, rows |-> <<>>, totals |-> None]}
    \cup [tbody : {TRUE}, rows : RowLists, totals : Totals]

InitCommon ==
    /\ results = <<>>
    /\ holdings = <<>>
    /\ ntables = 0
    /\ table = None
    /\ table_holdings = None
    /\ check = None
    /\ result = None
    /\ combined_holdings = <<>>
    /\ holdings_with_percentages = <<>>
    /\ portfolio = None
    /\ login_success = None
    /\ value_str = <<>>
    /\ normalizer = ""
    /\ number = None
    /\ portfolio_snapshots = {}
    /\ holdings_snapshots = {}
    /\ saved = [d \in Dates |-> None]

\* fetch_all_positions is entered
Init ==
    /\ fpc = "loop"
    /\ idx = 1
    /\ cpc = "idle"
    /\ broker = ""
    /\ InitCommon

\* the rows of a table body, of any shape
RowShapeLists == SeqsUpTo(RowShapes, MaxRows)

\* one crawler, inside its context manager, is about to run crawl()
InitCrawl ==
    /\ fpc = "cli"
    /\ idx = 0
    /\ cpc = "login"
    /\ broker \in Brokers
    /\ InitCommon

(***************************************************************************)
(* BaseCrawler.crawl                                                       *)
(***************************************************************************)
\* crawl() returns r; inside fetch_all_positions the result is appended and
\* the loop moves on to the next crawler
CrawlReturns(r) ==
    /\ result' = Some(r)
    /\ IF fpc = "loop"
       THEN /\ results' = Append(results, r)
            /\ idx' = idx + 1
            /\ cpc' = "idle"
            /\ broker' = ""
            /\ holdings' = <<>>
            /\ ntables' = 0
       ELSE /\ cpc' = "done"
            /\ UNCHANGED <<results, idx, broker, holdings, ntables>>
    /\ UNCHANGED <<fpc, fetchLocals, textLocals, snapshotStore>>

CrawlSucceeds(hs) == CrawlReturns(CrawlerResult(broker, TRUE, hs, None))

\* an except branch that hands on the holdings collected before the error
CrawlFails_keeping_holdings(msg) == CrawlReturns(CrawlerResult(broker, FALSE, holdings, Some(msg)))

\* the except branch of crawl(): error_message=str(e)
CrawlFails(msg) == CrawlReturns(CrawlerResult(broker, FALSE, <<>>, Some(msg)))

\* what was read and checked is kept only for a stand-alone run
Observe(t, th, c) ==
    IF fpc = "cli"
    THEN table' = Some(t) /\ table_holdings' = th /\ check' = c
    ELSE UNCHANGED <<table, table_holdings, check>>

\* _run_crawler: async with crawler (browser set-up may raise; the exception
\* is logged by fetch_all_positions and no result is appended)
RunCrawler(browser_ok) ==
    /\ fpc = "loop"
    /\ cpc = "idle"
    /\ idx <= Len(BROKER_CRAWLERS)
    /\ IF browser_ok
       THEN /\ cpc' = "login"
            /\ broker' = BROKER_CRAWLERS[idx]
            /\ UNCHANGED idx
       ELSE /\ idx' = idx + 1
            /\ UNCHANGED <<cpc, broker>>
    /\ UNCHANGED <<fpc, results, holdings, ntables, table, table_holdings,
                   check, result, fetchLocals, textLocals, snapshotStore>>
    /\ login_success' = None

\* login() returns True or False, or raises
Login(outcome) ==
    /\ cpc = "login"
    /\ CASE outcome = "true" ->
              /\ cpc' = "locate"
              /\ UNCHANGED <<fpc, idx, results, broker, holdings, ntables,
                             result, fetchLocals, textLocals, snapshotStore>>
         [] outcome = "false" -> CrawlReturns(
              CrawlerResult(broker, FALSE, <<>>, Some("Login failed")))
         [] outcome = "raises" -> CrawlFails("login error")
    /\ login_success' = CASE outcome = "true" -> Some(TRUE)
                           [] outcome = "false" -> Some(FALSE)
                           [] outcome = "raises" -> login_success
    /\ UNCHANGED <<table, table_holdings, check>>

\* scrape_portfolio up to the discovery of the holdings table(s)
LocateTables(outcome) ==
    /\ cpc = "locate"
    /\ CASE outcome = "found" ->
              /\ cpc' = "tables"
              /\ UNCHANGED <<fpc, idx, results, broker, holdings, ntables,
                             result, fetchLocals, textLocals, snapshotStore>>
         [] outcome = "navigation_error" -> CrawlFails("navigation error")
         [] outcome = "missing" ->
              IF broker = "chase"
              THEN CrawlFails("Chase portfolio table not found")
              ELSE IF broker = "merrill_edge"
              THEN CrawlFails("Holdings tables not found")
              \* E*TRADE: parse_portfolio_html catches the error, returns []
              ELSE CrawlSucceeds(<<>>)
    /\ UNCHANGED <<table, table_holdings, check, login_success>>

(***************************************************************************)
(* parse_portfolio_html of the three crawlers, from the table on           *)
(***************************************************************************)
Chase_parse_table(t) ==
    Chase_parse_rows(t.rows, "position") \o Chase_parse_rows(t.rows, "cash")

\* ChaseCrawler.parse_portfolio_html: rows, cash rows, sanity_check, return
ChaseParse(t) ==
    /\ cpc = "tables"
    /\ broker = "chase"
    /\ UNCHANGED login_success
    /\ IF ~t.tbody
       THEN /\ CrawlFails("No tbody found in portfolio table")
            /\ Observe(t, None, None)
       ELSE LET hs == Chase_parse_table(t)
                c == Chase_sanity_check(t.totals, hs)
            IN  /\ IF c.ok THEN CrawlSucceeds(hs) ELSE CrawlFails(c.err)
                /\ Observe(t, Some(hs), Some(c))

\* EtradeCrawler.parse_portfolio_html around _parse_positions_from_dom: any
\* exception of the latter is logged and [] is returned
EtradeParse(t) ==
    /\ cpc = "tables"
    /\ broker = "etrade"
    /\ t.tbody
    /\ UNCHANGED login_success
    /\ LET raw_rows == Etrade_extract_positions_data_via_js(t.rows)
           holding_list == Etrade_holding_list(raw_rows)
           c == Etrade_sanity_check(t.totals, holding_list.val)
       IN  IF raw_rows = <<>> \/ ~holding_list.ok
           THEN /\ CrawlSucceeds(<<>>)
                /\ Observe(t, None, None)
           ELSE /\ IF c.ok THEN CrawlSucceeds(holding_list.val)
                   ELSE CrawlSucceeds(<<>>)
                /\ Observe(t, Some(holding_list.val), Some(c))

\* MerrillCrawler.parse_portfolio_html: one iteration of "for table in tables"
MerrillParse(t) ==
    /\ cpc = "tables"
    /\ broker = "merrill_edge"
    /\ ntables < MaxTables
    /\ Len(holdings) + Len(t.rows) <= MaxRows
    /\ UNCHANGED login_success
    /\ IF ~t.tbody
       THEN /\ ntables' = ntables + 1
            /\ UNCHANGED <<fpc, idx, results, cpc, broker, holdings, result,
                           fetchLocals, textLocals, snapshotStore>>
            /\ Observe(t, None, None)
       ELSE LET th == Merrill_parse_rows(t.rows)
                c == Merrill_sanity_check(t.totals, th)
            IN  /\ IF c.ok
                   THEN /\ holdings' = holdings \o th
                        /\ ntables' = ntables + 1
                        /\ UNCHANGED <<fpc, idx, results, cpc, broker, result,
                                       fetchLocals, textLocals, snapshotStore>>
                   ELSE CrawlFails(c.err)
                /\ Observe(t, Some(th), Some(c))

\* MerrillCrawler.parse_portfolio_html after the last table
MerrillReturn ==
    /\ cpc = "tables"
    /\ broker = "merrill_edge"
    /\ ntables >= 1
    /\ LET combined == Merrill_combine_holdings_by_symbol(holdings)
       IN  IF combined.ok THEN CrawlSucceeds(combined.val)
           ELSE CrawlFails(combined.err)
    /\ UNCHANGED <<table, table_holdings, check, login_success>>

(***************************************************************************)
(* The row loops of parse_portfolio_html on a table body of any row shapes *)
(***************************************************************************)
\* the holdings tables are in front of the row loop of one crawler
InitParse ==
    /\ fpc = "parse"
    /\ idx = 0
    /\ cpc = "tables"
    /\ broker \in Brokers
    /\ InitCommon

\* the loop has read the rows of a table body and collected table_holdings
RowLoopEnds(rows, th) ==
    /\ fpc = "parse"
    /\ cpc = "tables"
    /\ Len(holdings) + Len(rows) <= MaxRows
    /\ table' = Some([tbody |-> TRUE, rows |-> rows, totals |-> None])
    /\ table_holdings' = Some(th)
    /\ holdings' = holdings \o th
    /\ ntables' = ntables + 1
    /\ UNCHANGED <<fpc, idx, results, cpc, broker, check, result, fetchLocals,
                   login_success, textLocals, snapshotStore>>

\* ChaseCrawler.parse_portfolio_html: position rows, then cash rows
ChaseRows(rows) ==
    /\ broker = "chase"
    /\ ntables = 0
    /\ RowLoopEnds(rows, Chase_parse_table([rows |-> rows]))

\* EtradeCrawler._parse_positions_from_dom up to its sanity check; when the
\* loop raises, parse_portfolio_html returns []
EtradeRows(rows) ==
    /\ broker = "etrade"
    /\ ntables = 0
    /\ LET holding_list ==
               Etrade_holding_list(Etrade_extract_positions_data_via_js(rows))
       IN  RowLoopEnds(rows, IF holding_list.ok THEN holding_list.val ELSE <<>>)

\* MerrillCrawler.parse_portfolio_html: the rows of one table of the page
MerrillRows(rows) ==
    /\ broker = "merrill_edge"
    /\ ntables < MaxTables
    /\ RowLoopEnds(rows, Merrill_parse_rows(rows))

ParseRows ==
    \/ \E rows \in RowShapeLists : ChaseRows(rows)
    \/ \E rows \in RowShapeLists : EtradeRows(rows)
    \/ \E rows \in RowShapeLists : MerrillRows(rows)
    \/ MerrillReturn

(***************************************************************************)
(* fetch_all_positions after its loop                                      *)
(***************************************************************************)
FetchFinish ==
    /\ fpc = "loop"
    /\ cpc = "idle"
    /\ idx > Len(BROKER_CRAWLERS)
    /\ combined_holdings' = combine_successful_holdings(results)
    /\ holdings_with_percentages' =
           assign_portfolio_percentages(combined_holdings')
    /\ portfolio' = Some(Portfolio(PortfolioArguments(holdings_with_percentages')))
    /\ fpc' = IF portfolio'[1].ok THEN "returned" ELSE "raised"
    /\ UNCHANGED <<idx, results, cpc, broker, holdings, ntables, table,
                   table_holdings, check, result, login_success, textLocals,
                   snapshotStore>>

Crawl ==
    \/ \E outcome \in {"true", "false", "raises"} : Login(outcome)
    \/ \E outcome \in {"found", "missing", "navigation_error"} :
           LocateTables(outcome)
    \/ \E t \in Tables : ChaseParse(t)
    \/ \E t \in Tables : EtradeParse(t)
    \/ \E t \in Tables : MerrillParse(t)
    \/ MerrillReturn

Next ==
    \/ \E browser_ok \in BOOLEAN : RunCrawler(browser_ok)
    \/ Crawl
    \/ FetchFinish

\* fetch_all_positions
Spec == Init /\ [][Next]_vars

\* one crawler run on its own
SpecCrawl == InitCrawl /\ [][Crawl]_vars

\* the row loops and the intra-broker aggregator on table bodies
SpecParse == InitParse /\ [][ParseRows]_vars

(***************************************************************************)
(* A numeric text normalizer applied to one cell text                      *)
(***************************************************************************)
\* a crawler is about to normalize the text of a cell
InitText ==
    /\ fpc = "text"
    /\ idx = 0
    /\ cpc = "tables"
    /\ broker \in Brokers
    /\ InitCommon

\* the call of a normalizer on text ends with outcome
Normalized(text, which, outcome) ==
    /\ value_str' = text
    /\ normalizer' = which
    /\ number' = Some(outcome)
    /\ UNCHANGED <<fpc, idx, results, cpc, broker, holdings, ntables, table,
                   table_holdings, check, result, fetchLocals, login_success,
                   snapshotStore>>

\* no normalizer has been called yet
BeforeCall ==
    /\ fpc = "text"
    /\ normalizer = ""

\* self._clean_decimal_text(text)
CleanDecimalText ==
    /\ BeforeCall
    /\ \E text \in Texts :
           Normalized(text, "decimal", clean_decimal_text(broker, text))

\* self._clean_percentage_text(text)
CleanPercentageText ==
    /\ BeforeCall
    /\ \E text \in Texts :
           Normalized(text, "percent", clean_percentage_text(broker, text))

Normalize ==
    \/ CleanDecimalText
    \/ CleanPercentageText

\* the numeric text normalizers on cell texts
SpecText == InitText /\ [][Normalize]_vars

(***************************************************************************)
(* Snapshots saved to the database                                         *)
(***************************************************************************)
\* the database has been initialised (_init_database); nothing is saved yet
InitStore ==
    /\ fpc = "store"
    /\ idx = 0
    /\ cpc = "idle"
    /\ broker = ""
    /\ InitCommon

\* db.save_portfolio_snapshot(p)
SavePortfolioSnapshot(p) ==
    LET call == save_portfolio_snapshot(portfolio_snapshots,
                                        holdings_snapshots, p)
    IN  /\ portfolio_snapshots' = call.portfolio_snapshots
        /\ holdings_snapshots' = call.holdings_snapshots
        /\ saved' = [saved EXCEPT ![strftime(p.last_updated)] =
                         Some([portfolio |-> p, outcome |-> call.outcome])]
        /\ UNCHANGED <<fpc, idx, results, cpc, broker, holdings, ntables,
                       table, table_holdings, check, result, fetchLocals,
                       login_success, textLocals>>

Save ==
    /\ fpc = "store"
    /\ \E p \in PortfolioObjects : SavePortfolioSnapshot(p)

\* the snapshot store under any sequence of saves
SpecStore == InitStore /\ [][Save]_vars

(***************************************************************************)
(* Reconciliation claims, checked on a stand-alone crawler run (SpecCrawl) *)
(***************************************************************************)
\* a sanity check has run on the table last read
SanityCheckRan == table # None /\ table_holdings # None /\ check # None

ComputedValue == SumField(table_holdings[1], "current_value")

ComputedGain == SumField(table_holdings[1], "unrealized_gain_loss")

\* |computed - reported| / |reported| > 0.01
DiffersByMoreThanOnePercent(computed, reported) ==
    reported # 0 /\ Abs(computed - reported) * 100 > Abs(reported)

\* |computed - reported| <= 0.01 * |reported| (equality when reported is 0)
WithinOnePercent(computed, reported) ==
    Abs(computed - reported) * 100 <= Abs(reported)

\* C1: whenever the sum of current_value over the parsed holdings differs
\* from the page-reported total value by more than 1% of the reported figure,
\* the broker's sanity check raises and the scrape returns no holdings.
C1_ValueMismatchRaises ==
    (SanityCheckRan /\ table[1].totals # None
     /\ DiffersByMoreThanOnePercent(ComputedValue, table[1].totals[1].value))
    => /\ ~check[1].ok
       /\ cpc = "done"
       /\ result[1].holdings = <<>>

\* C2: whenever the sum of unrealized_gain_loss over the parsed holdings
\* differs from the page-reported total unrealized gain/loss by more than 1%
\* of the reported figure, the sanity check raises an error (it does not end
\* with a log line or a return value) and the crawl is aborted.
C2_GainMismatchRaises ==
    (SanityCheckRan /\ table[1].totals # None
     /\ table[1].totals[1].gain # None
     /\ DiffersByMoreThanOnePercent(ComputedGain, table[1].totals[1].gain[1]))
    => /\ ~check[1].ok
       /\ cpc = "done"

\* the sanity check did not pass: it raised, or it reported a mismatch
SanityCheckFailed == ~check[1].ok \/ check[1].log \in {"fatal", "warning"}

\* C3: if the sanity check fails (mismatch detected or totals row missing),
\* crawl() returns a CrawlerResult with success=false and a non-empty
\* error_message, never a successful result.
C3_SanityFailureFailsCrawl ==
    (SanityCheckRan /\ SanityCheckFailed)
    => /\ cpc = "done"
       /\ result[1].success = FALSE
       /\ result[1].error_message # None
       /\ result[1].error_message # Some("")

\* the reported unrealized total: a blank or "--" cell of a Merrill totals
\* row stands for zero
ReportedGainOf(t) ==
    IF t.totals[1].gain = None THEN 0 ELSE t.totals[1].gain[1]

\* C4: whenever both computed sums are within 1% of the page-reported totals
\* (exact equality and zero totals included), the sanity check completes
\* without raising.
C4_WithinToleranceNeverRaises ==
    (SanityCheckRan /\ table[1].totals # None
     /\ (table[1].totals[1].gain = None => broker = "merrill_edge")
     /\ WithinOnePercent(ComputedValue, table[1].totals[1].value)
     /\ WithinOnePercent(ComputedGain, ReportedGainOf(table[1])))
    => check[1].ok

(***************************************************************************)
(* Cross-broker claims, checked on fetch_all_positions (Spec)              *)
(***************************************************************************)
\* fetch_all_positions has ended, by return or by exception
Finished == fpc \in {"returned", "raised"}

SuccessfulResults == {i \in 1..Len(results) : results[i].success}

SuccessfulBrokers == {results[i].broker : i \in SuccessfulResults}

\* the member holdings: positions <<i, j>> of the holdings of the successful
\* results
AllMembers ==
    UNION {{<<i, j>> : j \in 1..Len(results[i].holdings)} : i \in SuccessfulResults}

MemberHolding(m) == results[m[1]].holdings[m[2]]

Members(symbol) == {m \in AllMembers : MemberHolding(m).symbol = symbol}

MemberSymbols == {MemberHolding(m).symbol : m \in AllMembers}

RECURSIVE SumMembers(_, _)
SumMembers(S, f) ==
    IF S = {} THEN 0
    ELSE LET m == CHOOSE x \in S : TRUE
         IN  MemberHolding(m)[f] + SumMembers(S \ {m}, f)

\* the merged holdings with a given symbol
MergedWith(symbol) ==
    {i \in 1..Len(holdings_with_percentages) :
        holdings_with_percentages[i].symbol = symbol}

SummedFields ==
    {"quantity", "cost_basis", "current_value", "day_change_dollars",
     "unrealized_gain_loss"}

\* C5: if a broker's crawler returns success=false or raises, the run still
\* ends by returning a Portfolio built from the successful brokers, to which
\* the failed broker contributes nothing.
C5_FailedBrokerDoesNotAbortRun ==
    (Finished /\ SuccessfulResults # 1..Len(BROKER_CRAWLERS))
    => /\ fpc = "returned"
       /\ portfolio[1].ok
       /\ portfolio[1].val.holdings = holdings_with_percentages
       /\ \A i \in 1..Len(holdings_with_percentages) :
              DOMAIN holdings_with_percentages[i].brokers \subseteq SuccessfulBrokers

\* C6: the returned Portfolio has brokers_updated equal to exactly the names
\* of the brokers whose CrawlerResult had success=true.
C6_BrokersUpdatedAreTheSuccessfulBrokers ==
    Finished
    => /\ portfolio[1].ok
       /\ LET updated == portfolio[1].val.brokers_updated
          IN  {updated[i] : i \in 1..Len(updated)} = SuccessfulBrokers

\* C7: for every symbol occurring in the holdings of a successful result the
\* merged list has exactly one Holding with that symbol, no merged Holding has
\* any other symbol, and quantity, cost_basis, current_value,
\* day_change_dollars and unrealized_gain_loss are the sums over the symbol's
\* member holdings.
C7_MergeSumsPerSymbol ==
    Finished
    => /\ \A symbol \in MemberSymbols : Cardinality(MergedWith(symbol)) = 1
       /\ \A i \in 1..Len(holdings_with_percentages) :
              LET h == holdings_with_percentages[i]
              IN  /\ h.symbol \in MemberSymbols
                  /\ \A f \in SummedFields :
                         h[f] = SumMembers(Members(h.symbol), f)

\* a symbol held at two brokers, in three or more member holdings, was merged
C7_Witness ==
    /\ Finished
    /\ Len(holdings_with_percentages) >= 2
    /\ \E i \in 1..Len(holdings_with_percentages) :
           LET h == holdings_with_percentages[i]
           IN  /\ Cardinality(Members(h.symbol)) >= 3
               /\ Cardinality({results[m[1]].broker : m \in Members(h.symbol)}) >= 2
               /\ h.quantity # 0

\* the members of a symbol that carry a value for a broker
MembersOf(symbol, b) ==
    {m \in Members(symbol) : b \in DOMAIN MemberHolding(m).brokers}

RECURSIVE SumBrokerValues(_, _)
SumBrokerValues(S, b) ==
    IF S = {} THEN 0
    ELSE LET m == CHOOSE x \in S : TRUE
         IN  MemberHolding(m).brokers[b] + SumBrokerValues(S \ {m}, b)

\* C8: the merged Holding's brokers map has exactly the brokers that hold the
\* symbol as keys, and each entry is the sum of the values that broker's
\* member holdings carry for it (added, not overwritten).
C8_BrokerMapsAreSummed ==
    Finished
    => \A i \in 1..Len(holdings_with_percentages) :
           LET h == holdings_with_percentages[i]
           IN  /\ DOMAIN h.brokers =
                      {results[m[1]].broker : m \in Members(h.symbol)}
               /\ \A b \in DOMAIN h.brokers :
                      h.brokers[b] = SumBrokerValues(MembersOf(h.symbol, b), b)

\* one broker contributes two member holdings of a symbol, another broker a
\* third
C8_Witness ==
    /\ Finished
    /\ \E i \in 1..Len(holdings_with_percentages) :
           LET h == holdings_with_percentages[i]
           IN  /\ Cardinality(DOMAIN h.brokers) >= 2
               /\ \E b \in DOMAIN h.brokers :
                      /\ Cardinality(MembersOf(h.symbol, b)) >= 2
                      /\ h.brokers[b] # 0

\* C9: after merging, when the total value is non-zero every holding has
\* portfolio_percentage = current_value / (sum of current_value over the
\* merged holdings), whatever percentage the broker page supplied, and the
\* percentages sum to 1.
C9_PercentagesAreSharesOfTotal ==
    LET hs == holdings_with_percentages
        total == SumField(hs, "current_value")
    IN  (Finished /\ hs # <<>> /\ total # 0)
        => /\ \A i \in 1..Len(hs) :
                  /\ hs[i].portfolio_percentage # None
                  /\ hs[i].portfolio_percentage[1].num * total
                         = hs[i].current_value * hs[i].portfolio_percentage[1].den
           /\ RatSum([i \in 1..Len(hs) |-> hs[i].portfolio_percentage[1]]) = One

\* two merged holdings with a negative total, one of them a Merrill holding
\* whose page supplied a different percentage
C9_Witness ==
    /\ Finished
    /\ Len(holdings_with_percentages) >= 2
    /\ SumField(holdings_with_percentages, "current_value") < 0
    /\ \E m \in AllMembers :
           /\ MemberHolding(m).portfolio_percentage # None
           /\ \A i \in MergedWith(MemberHolding(m).symbol) :
                  holdings_with_percentages[i].portfolio_percentage
                      # MemberHolding(m).portfolio_percentage

\* C10: the Portfolio produced by fetch_all_positions carries total_value,
\* total_cost_basis, total_unrealized_gain_loss and day_change_dollars as sums
\* over the merged holdings, day_change_percent = day_change_dollars /
\* (total_value - day_change_dollars) (0 if that is 0) and
\* total_unrealized_gain_loss_percent = total_unrealized_gain_loss /
\* total_cost_basis (0 if that is 0).
C10_PortfolioCarriesTotals ==
    Finished
    => /\ portfolio[1].ok
       /\ LET p == portfolio[1].val
              hs == p.holdings
              prior == SumField(hs, "current_value") - SumField(hs, "day_change_dollars")
          IN  /\ {"day_change_dollars", "day_change_percent"} \subseteq DOMAIN p
              /\ p.total_value = SumField(hs, "current_value")
              /\ p.total_cost_basis = SumField(hs, "cost_basis")
              /\ p.total_unrealized_gain_loss = SumField(hs, "unrealized_gain_loss")
              /\ p.day_change_dollars = SumField(hs, "day_change_dollars")
              /\ p.day_change_percent =
                     (IF prior = 0 THEN Zero ELSE Rat(p.day_change_dollars, prior))
              /\ p.total_unrealized_gain_loss_percent =
                     (IF p.total_cost_basis = 0 THEN Zero
                      ELSE Rat(p.total_unrealized_gain_loss, p.total_cost_basis))

(***************************************************************************)
(* Intra-broker aggregator claims, checked on the row loops followed by    *)
(* _combine_holdings_by_symbol (SpecParse)                                 *)
(***************************************************************************)
\* _combine_holdings_by_symbol has been applied to the collected holdings
Combined == fpc = "parse" /\ cpc = "done" /\ result # None

\* the positions in the collected (input) holdings that carry a symbol
InputMembers(symbol) ==
    {j \in 1..Len(holdings) : holdings[j].symbol = symbol}

InputSymbols == {holdings[j].symbol : j \in 1..Len(holdings)}

RECURSIVE InputSum(_, _)
InputSum(S, f) ==
    IF S = {} THEN 0
    ELSE LET j == CHOOSE x \in S : TRUE
         IN  holdings[j][f] + InputSum(S \ {j}, f)

\* the fraction p equals n / d (d # 0)
IsQuotient(p, n, d) == p.den > 0 /\ p.num * d = n * p.den

\* C11: the Merrill aggregator returns exactly one Holding per distinct
\* input symbol; its quantity, cost_basis, current_value, day_change_dollars
\* and unrealized_gain_loss are the sums over the symbol's members; price is
\* current_value / quantity and unit_cost is cost_basis / quantity when the
\* summed quantity is non-zero, and both are 0 when it is zero.
C11_MerrillCombineSumsAndWeights ==
    (Combined /\ result[1].success)
    => LET out == result[1].holdings
       IN  /\ \A symbol \in InputSymbols :
                  Cardinality({i \in 1..Len(out) : out[i].symbol = symbol}) = 1
           /\ \A i \in 1..Len(out) :
                  /\ out[i].symbol \in InputSymbols
                  /\ \A f \in SummedFields :
                         out[i][f] = InputSum(InputMembers(out[i].symbol), f)
                  /\ IF out[i].quantity # 0
                     THEN /\ IsQuotient(out[i].price, out[i].current_value,
                                         out[i].quantity)
                          /\ IsQuotient(out[i].unit_cost, out[i].cost_basis,
                                         out[i].quantity)
                     ELSE out[i].price = Zero /\ out[i].unit_cost = Zero

\* two lots of a symbol bought in different sizes at different prices were
\* consolidated into a holding with a non-zero quantity
C11_Witness ==
    /\ Combined
    /\ result[1].success
    /\ \E i \in 1..Len(result[1].holdings) :
           LET h == result[1].holdings[i]
               members == InputMembers(h.symbol)
           IN  /\ h.quantity # 0
               /\ \E j, k \in members :
                      /\ holdings[j].price # holdings[k].price
                      /\ holdings[j].quantity # holdings[k].quantity

\* C12: the consolidated day_change_percent is day_change_dollars /
\* (current_value - day_change_dollars) on the summed fields and 0 when that
\* denominator is 0, unrealized_gain_loss_percent is unrealized_gain_loss /
\* cost_basis and 0 when cost_basis is 0, and combining a group never fails
\* with a division error (Merrill aggregator; the same on the merged list of
\* fetch_all_positions).
C12_RatiosOnSummedFields ==
    LET RatiosHold(h) ==
            LET prior_value == h.current_value - h.day_change_dollars
            IN  /\ h.day_change_percent =
                       (IF prior_value = 0 THEN Zero
                        ELSE Rat(h.day_change_dollars, prior_value))
                /\ h.unrealized_gain_loss_percent =
                       (IF h.cost_basis = 0 THEN Zero
                        ELSE Rat(h.unrealized_gain_loss, h.cost_basis))
    IN  /\ Combined
           => /\ result[1].success
              /\ \A i \in 1..Len(result[1].holdings) :
                     RatiosHold(result[1].holdings[i])
        /\ Finished
           => \A i \in 1..Len(holdings_with_percentages) :
                  RatiosHold(holdings_with_percentages[i])

\* C13: the consolidated portfolio_percentage is the sum of the members'
\* percentages when every member of the group has one, and None as soon as
\* one member has none.
C13_PercentageNeedsEveryMember ==
    (Combined /\ result[1].success)
    => \A i \in 1..Len(result[1].holdings) :
           LET h == result[1].holdings[i]
               group == SelectSeq(holdings, LAMBDA m : m.symbol = h.symbol)
           IN  IF \A j \in 1..Len(group) : group[j].portfolio_percentage # None
               THEN h.portfolio_percentage =
                        Some(RatSum([j \in 1..Len(group) |->
                                        group[j].portfolio_percentage[1]]))
               ELSE h.portfolio_percentage = None

(***************************************************************************)
(* Row claims, checked on the row loops of parse_portfolio_html            *)
(* (SpecParse): table is the table body read last, table_holdings the      *)
(* holdings its row loop collected                                         *)
(***************************************************************************)
RowsRead == fpc = "parse" /\ table # None /\ table_holdings # None

\* price = unit_cost = 1.00, no day change and no unrealized gain or loss
CashFieldsHold(h) ==
    /\ h.price = One
    /\ h.unit_cost = One
    /\ h.day_change_dollars = 0
    /\ h.day_change_percent = Zero
    /\ h.unrealized_gain_loss = 0
    /\ h.unrealized_gain_loss_percent = Zero

\* C14: every Holding a cash-row detector emits has symbol "USD_CASH",
\* price = unit_cost = 1.00, quantity = current_value = cost_basis = the cash
\* amount scraped from a row with the cash marker, and zero day-change and
\* unrealized fields; a table of cash rows yields no other holding.
C14_CashRowHolding ==
    RowsRead
    => LET rows == table[1].rows
           th == table_holdings[1]
       IN  /\ \A j \in 1..Len(th) :
                  th[j].symbol = "USD_CASH"
                  => /\ CashFieldsHold(th[j])
                     /\ \E i \in 1..Len(rows) :
                            /\ HasCashMarker(rows[i])
                            /\ th[j].quantity = rows[i].value
                            /\ th[j].current_value = rows[i].value
                            /\ th[j].cost_basis = rows[i].value
           /\ (\A i \in 1..Len(rows) : rows[i].kind = "cash")
              => \A j \in 1..Len(th) : th[j].symbol = "USD_CASH"

\* a table with a position row and a cash row with a balance yielded the
\* cash Holding
C14_Witness ==
    /\ RowsRead
    /\ \E i \in 1..Len(table[1].rows) : table[1].rows[i].kind = "position"
    /\ \E j \in 1..Len(table_holdings[1]) :
           /\ table_holdings[1][j].symbol = "USD_CASH"
           /\ table_holdings[1][j].quantity > 1

\* C15: every Holding with symbol "USD_CASH", at any stage (parsed,
\* consolidated by the Merrill aggregator, merged across brokers), has
\* price = unit_cost = 1.00 and zero day-change and unrealized fields,
\* whatever the cash amounts are (a zero balance included).
C15_CashIsAlwaysOneDollar ==
    LET CashHolds(hs) ==
            \A i \in 1..Len(hs) :
                hs[i].symbol = "USD_CASH" => CashFieldsHold(hs[i])
    IN  /\ CashHolds(holdings)
        /\ table_holdings # None => CashHolds(table_holdings[1])
        /\ result # None => CashHolds(result[1].holdings)
        /\ \A i \in 1..Len(results) : CashHolds(results[i].holdings)
        /\ CashHolds(combined_holdings)
        /\ CashHolds(holdings_with_percentages)

\* C16: no row contributes both a position Holding and a cash Holding: for a
\* row with the cash marker, the holdings that carry the row's value under
\* the cash symbol or under the row's own symbol are no more than the rows
\* of the table equal to it.
C16_CashRowCountedOnce ==
    RowsRead
    => LET rows == table[1].rows
           th == table_holdings[1]
       IN  \A i \in 1..Len(rows) :
               HasCashMarker(rows[i])
               => Cardinality({j \in 1..Len(th) :
                                  /\ th[j].current_value = rows[i].value
                                  /\ th[j].symbol \in {"USD_CASH", rows[i].symbol}})
                  <= Cardinality({k \in 1..Len(rows) : rows[k] = rows[i]})

\* the cells of the required fields quantity, price and current_value
RequiredCells == {"quantity", "price", "value"}

\* the holding carries what the row shows as symbol, quantity, price and
\* value
ParsedFrom(h, row) ==
    /\ h.symbol = row.symbol
    /\ h.quantity = row.quantity
    /\ h.price = Rat(row.price, 1)
    /\ h.current_value = row.value

\* C17: a row whose symbol, quantity, price or current_value is missing
\* yields no Holding: every position Holding collected has the symbol,
\* quantity, price and current_value of a row of the table in which all four
\* are present.
C17_RequiredFieldsAreParsed ==
    RowsRead
    => LET rows == table[1].rows
           th == table_holdings[1]
       IN  \A j \in 1..Len(th) :
               th[j].symbol # "USD_CASH"
               => \E i \in 1..Len(rows) :
                      /\ rows[i].symbol # ""
                      /\ RequiredCells \cap rows[i].blank = {}
                      /\ ParsedFrom(th[j], rows[i])

\* the Merrill row loop ends at the first row it takes for the cash row
EndsMerrillTable(row) ==
    /\ HasCashMarker(row)
    /\ {"quantity", "value"} \cap row.blank = {}
    /\ row.quantity = row.value

\* row i of the table is reached by the row loop
Reached(rows, i) ==
    broker = "merrill_edge" => \A k \in 1..(i - 1) : ~EndsMerrillTable(rows[k])

\* C18: a position row whose required fields are all present yields a
\* Holding even when its cost basis, unit cost or day change cell is blank,
\* and the Holding has 0 for each blank one.
C18_BlankOptionalFieldsAreZero ==
    RowsRead
    => LET rows == table[1].rows
           th == table_holdings[1]
       IN  \A i \in 1..Len(rows) :
               (/\ rows[i].kind = "position"
                /\ rows[i].symbol # ""
                /\ RequiredCells \cap rows[i].blank = {}
                /\ Reached(rows, i))
               => \E j \in 1..Len(th) :
                      /\ ParsedFrom(th[j], rows[i])
                      /\ "cost_basis" \in rows[i].blank => th[j].cost_basis = 0
                      /\ "unit_cost" \in rows[i].blank => th[j].unit_cost = Zero
                      /\ "day_dollars" \in rows[i].blank
                         => /\ th[j].day_change_dollars = 0
                            /\ th[j].day_change_percent = Zero

\* a position row with text in every cell, a symbol and non-zero amounts
WellFormed(row) ==
    /\ row.kind = "position"
    /\ row.symbol # ""
    /\ row.blank = {}
    /\ row.quantity # 0
    /\ row.value # 0

\* a position row the row parser gives up on in every broker variant
Malformed(row) ==
    /\ row.kind = "position"
    /\ row.symbol = "" \/ RequiredCells \cap row.blank # {}

NoTableBodyRead ==
    /\ fpc = "cli"
    /\ cpc = "done"
    /\ table = None \/ (~table[1].tbody /\ ntables <= 1)

\* C20: if the holdings table or grid is not on the page (no table found,
\* table without a body, grid never rendered), crawl() returns success=false
\* with an error message, never success=true with an empty holdings list.
C20_MissingTableFailsCrawl ==
    NoTableBodyRead
    => /\ result[1].success = FALSE
       /\ result[1].error_message # None

(***************************************************************************)
(* Numeric text normalizers, checked on single cell texts (SpecText)       *)
(***************************************************************************)
\* the normalizer named which has returned a number for value_str
Normalizes(which) ==
    /\ fpc = "text"
    /\ normalizer = which
    /\ number # None
    /\ number[1].ok

\* the first number of the text, signs given
FirstNumber(signs, text) == float(re_search(signs, text)[1])

\* C21: in every broker's _clean_percentage_text a text with the prefix
\* "Loss of" never yields a positive result and one with the prefix "Gain of"
\* never a negative one, whatever follows the prefix; the magnitude is the
\* first number of the text divided by 100.
C21_PrefixDecidesSign ==
    (Normalizes("percent") /\ value_str[1] \in {"Loss of", "Gain of"})
    => /\ value_str[1] = "Loss of" => number[1].val.num <= 0
       /\ value_str[1] = "Gain of" => number[1].val.num >= 0
       /\ RatAbs(number[1].val) = Percent(RatAbs(FirstNumber({}, value_str)))

\* the text is wrapped in parentheses
Wrapped(text) ==
    LET stripped == strip(text)
    IN  /\ Len(stripped) >= 2
        /\ stripped[1] = "("
        /\ stripped[Len(stripped)] = ")"

\* C22: in every broker's _clean_decimal_text the result is the first
\* optionally-signed decimal number of the text without its "$" and ",",
\* whatever follows that number; it is negated exactly when the text is
\* wrapped in parentheses and is the number as written otherwise.
C22_FirstNumberNegatedWhenWrapped ==
    Normalizes("decimal")
    => LET written == FirstNumber({"-", "+"}, Without(value_str, {"$", ","}))
       IN  number[1].val = IF Wrapped(value_str) THEN RatNeg(written)
                           ELSE written

\* a normalizer has been applied to value_str
NormalizerCalled ==
    /\ fpc = "text"
    /\ normalizer \in {"decimal", "percent"}
    /\ number # None

\* C23: in every broker variant and in both modes the normalizer raises on
\* the empty string and on every text without a digit; it returns no number
\* (no 0, no default) for such a text.
C23_NoDigitRaises ==
    (NormalizerCalled /\ \A i \in DOMAIN value_str : value_str[i] \notin Digits)
    => /\ ~number[1].ok
       /\ number[1].val = None

\* a blank marker of two dashes has been handed to a decimal normalizer and
\* the call has raised
C23_Witness ==
    /\ NormalizerCalled
    /\ normalizer = "decimal"
    /\ value_str = <<"-", "-">>
    /\ ~number[1].ok

(***************************************************************************)
(* The result of crawl(), checked on a stand-alone crawler run (SpecCrawl) *)
(***************************************************************************)
\* what scrape_portfolio returned to crawl(), read off what the crawler has
\* parsed: Chase returns the holdings of its table, Merrill the combined
\* holdings of its tables, E*TRADE the holdings of its grid or [] when the
\* grid is missing or its parsing or check has raised
ScrapeReturned ==
    CASE broker = "chase" -> table_holdings[1]
      [] broker = "merrill_edge" ->
             Merrill_combine_holdings_by_symbol(holdings).val
      [] broker = "etrade" ->
             IF table # None /\ check # None /\ check[1].ok
             THEN table_holdings[1] ELSE <<>>

\* C24: every CrawlerResult crawl() returns has, when success is false, no
\* holdings and an error_message, and when success is true, no error_message
\* and exactly the holdings scrape_portfolio returned; crawl() ends with a
\* result, never with an exception; scrape_portfolio runs only after login()
\* has returned True.
C24_CrawlerResultShape ==
    fpc = "cli"
    => /\ cpc = "done" => result # None
       /\ result # None
          => /\ result[1].success = FALSE
                => /\ result[1].holdings = <<>>
                   /\ result[1].error_message # None
             /\ result[1].success = TRUE
                => /\ result[1].error_message = None
                   /\ result[1].holdings = ScrapeReturned
       /\ (cpc \in {"locate", "tables"} \/ table # None)
          => login_success = Some(TRUE)

\* Merrill's crawl has failed after holdings had been collected from a table
C24_Witness ==
    /\ fpc = "cli"
    /\ cpc = "done"
    /\ broker = "merrill_edge"
    /\ holdings # <<>>
    /\ login_success = Some(TRUE)
    /\ result[1].success = FALSE
    /\ result[1].holdings = <<>>

(***************************************************************************)
(* Snapshot store, checked under any sequence of saves (SpecStore)         *)
(***************************************************************************)
\* the rows stored for date d
PortfolioRowsOf(d) == {r \in portfolio_snapshots : r.date = d}

HoldingRowsOf(d) == {r \in holdings_snapshots : r.date = d}

\* row r of portfolio_snapshots holds the totals of portfolio p
HoldsTotalsOf(r, p) ==
    /\ r.timestamp = p.last_updated
    /\ r.total_value = p.total_value
    /\ r.total_cost_basis = p.total_cost_basis
    /\ r.total_unrealized_gain_loss = p.total_unrealized_gain_loss
    /\ r.total_unrealized_gain_loss_percent =
           p.total_unrealized_gain_loss_percent

\* C25: after any sequence of save_portfolio_snapshot calls each date has at
\* most one portfolio_snapshots row and at most one holdings_snapshots row
\* per symbol; the rows of a date are exactly the totals and the holdings of
\* the Portfolio saved last for that date, with no row left from an earlier
\* save; a date nothing was saved for has no rows.
C25_SnapshotIsLastSaved ==
    fpc = "store"
    => \A d \in Dates :
           /\ Cardinality(PortfolioRowsOf(d)) <= 1
           /\ \A r1, r2 \in HoldingRowsOf(d) : r1.symbol = r2.symbol => r1 = r2
           /\ saved[d] = None
              => PortfolioRowsOf(d) = {} /\ HoldingRowsOf(d) = {}
           /\ saved[d] # None
              => LET p == saved[d][1].portfolio
                 IN  /\ \E r \in PortfolioRowsOf(d) : HoldsTotalsOf(r, p)
                     /\ HoldingRowsOf(d) = HoldingRows(d, p.holdings)

(***************************************************************************)
(* Derived day change of Chase positions, checked on row loops (SpecParse) *)
(***************************************************************************)
\* C26: every position Holding whose day_change_percent the row parser
\* derives (Chase) has day_change_percent = day_change_dollars divided by
\* the prior-day value current_value - day_change_dollars.
C26_DayChangeOverPriorValue ==
    (RowsRead /\ broker = "chase")
    => \A i \in DOMAIN table_holdings[1] :
           LET h == table_holdings[1][i]
               prior_value == h.current_value - h.day_change_dollars
           IN  (h.symbol # "USD_CASH" /\ prior_value # 0)
               => h.day_change_percent = Rat(h.day_change_dollars, prior_value)

(***************************************************************************)
(* The two group combiners on the same group, checked on the holdings the  *)
(* row loops collect (SpecParse)                                           *)
(***************************************************************************)
\* the fields both combiners compute from the group
CombinedFields ==
    {"quantity", "price", "unit_cost", "cost_basis", "current_value",
     "day_change_dollars", "day_change_percent", "unrealized_gain_loss",
     "unrealized_gain_loss_percent"}

\* C27: on every non-empty list of holdings of one symbol,
\* MerrillCrawler._combine_symbol_group and fetch_all_positions'
\* _combine_symbol_group give the same quantity, price, unit_cost,
\* cost_basis, current_value, day_change_dollars, day_change_percent,
\* unrealized_gain_loss and unrealized_gain_loss_percent, and one raises
\* exactly when the other does (the cross-broker one raises on no such list).
C27_CombinersAgree ==
    RowsRead
    => \A i \in DOMAIN holdings :
           LET symbol == holdings[i].symbol
               group == SymbolGroup(holdings, symbol)
               intra == Merrill_combine_symbol_group(symbol, group)
               cross == combine_symbol_group(symbol, group)
           IN  /\ intra.ok
               /\ \A f \in CombinedFields : intra.val[f] = cross[f]

(***************************************************************************)
(* One Holding per symbol and broker, checked on a stand-alone crawler run *)
(* (SpecCrawl)                                                             *)
(***************************************************************************)
\* C28: the holdings list a broker's scrape_portfolio returns (the holdings
\* of a successful CrawlerResult) has at most one Holding per symbol, for
\* Chase and E*TRADE as well as for Merrill.
C28_OneHoldingPerSymbol ==
    (fpc = "cli" /\ result # None /\ result[1].success)
    => \A i, j \in DOMAIN result[1].holdings :
           result[1].holdings[i].symbol = result[1].holdings[j].symbol
           => i = j

(***************************************************************************)
(* The merged portfolio against its parts, checked on fetch_all_positions  *)
(* (Spec)                                                                  *)
(***************************************************************************)
RECURSIVE SumOfMap(_, _)
\* sum(brokers.values()), over the keys S
SumOfMap(brokers, S) ==
    IF S = {} THEN 0
    ELSE LET b == CHOOSE x \in S : TRUE
         IN  brokers[b] + SumOfMap(brokers, S \ {b})

\* C29: in the merged portfolio the values of every Holding's brokers map
\* add up to its current_value (every parsed holding enters the merge with
\* brokers = {its broker: its current_value}).
C29_BrokerValuesAddUpToValue ==
    Finished
    => /\ \A i \in DOMAIN results : \A j \in DOMAIN results[i].holdings :
              LET h == results[i].holdings[j]
              IN  h.brokers = BrokerMap(results[i].broker, h.current_value)
       /\ \A i \in DOMAIN holdings_with_percentages :
              LET h == holdings_with_percentages[i]
              IN  SumOfMap(h.brokers, DOMAIN h.brokers) = h.current_value

\* a merged holding is held at two brokers with different values
C29_Witness ==
    /\ Finished
    /\ \E i \in DOMAIN holdings_with_percentages :
           LET h == holdings_with_percentages[i]
           IN  /\ h.current_value # 0
               /\ \E b1, b2 \in DOMAIN h.brokers : h.brokers[b1] # h.brokers[b2]

\* the merged holding of symbol
MergedHolding(symbol) ==
    LET i == CHOOSE k \in DOMAIN holdings_with_percentages :
                 holdings_with_percentages[k].symbol = symbol
    IN  holdings_with_percentages[i]

\* the fields of a holding the merge has no reason to change when the holding
\* is the only one of its symbol
PassedThroughFields == CombinedFields \cup {"description"}

\* C30: a symbol that occurs in exactly one holding across all successful
\* results has, in the merged portfolio, the quantity, price, unit_cost,
\* cost_basis, current_value, day_change_dollars, day_change_percent,
\* unrealized_gain_loss, unrealized_gain_loss_percent and description of
\* that holding; only portfolio_percentage is reassigned.
C30_SingletonPassesThrough ==
    Finished
    => \A m \in AllMembers :
           Members(MemberHolding(m).symbol) = {m}
           => \A f \in PassedThroughFields :
                  MergedHolding(MemberHolding(m).symbol)[f] = MemberHolding(m)[f]

====
